---- MODULE Spec2Model ----
(***************************************************************************)
(* A model of the signalling core of bbb-webrtc-sfu's mcs-core:            *)
(*   - MediaSession (lib/mcs-core/lib/model/MediaSession.js): the status   *)
(*     machine of one media session, its adapter calls and the buffering   *)
(*     of media-state and ICE events until onEvent subscribes;             *)
(*   - MCSRouter (lib/mcs-core/lib/media/MCSRouter.js): the command        *)
(*     handlers of registered clients, the mediaId -> client map and the   *)
(*     dispatch of bus events to the owning client.                        *)
(* JavaScript runs each synchronous stretch to completion: an action is    *)
(* one such stretch (from a call or a resumed await to the next await).    *)
(* Two stretches are shown statement by statement, with every other action *)
(* disabled meanwhile, because listeners and clients observe the state in  *)
(* the middle of them: the flush loops of the MediaSession and the part of *)
(* a Router handler that follows its await.                                *)
(***************************************************************************)
EXTENDS Naturals, Sequences, FiniteSets

\* ------------------------------------------------------------- bounds
MaxEvents == 3
MaxStarts == 2
MaxPending == 2
MaxStops == 2
MaxMedia == 2
MaxSinks == 2

\* ------------------------------------------------- MediaSession: values
STOPPED == "STOPPED"
STARTING == "STARTING"
STARTED == "STARTED"
STOPPING == "STOPPING"
STATUS == {STOPPED, STARTING, STARTED, STOPPING}

KURENTO == "Kurento"
FREESWITCH == "Freeswitch"
AdapterNames == {KURENTO, FREESWITCH, "other"}

MEDIA_EVENT == "MEDIA_EVENT"
ICE == "ICE"
MEDIA_SESSION_STOPPED == "MEDIA_SESSION_STOPPED"
SERVER_STATE == "SERVER_STATE"
EventNames == {MEDIA_EVENT, ICE, "unknown"}

Undefined == "undefined"
ElementHandles == {"el1"}
SessionId == 1

VARIABLES
  status,                  \* this._status
  mediaElement,            \* this._mediaElement
  MediaServer,             \* this._MediaServer: an adapter, or "null"
  mediaListeners,          \* listeners registered at lines 75-76
  serverListeners,         \* listeners registered at lines 80-92
  eventQueue,              \* this.eventQueue
  outboundIceQueue,        \* this.outboundIceQueue
  mediaStateSubscription,  \* this._mediaStateSubscription
  iceSubscription,         \* this._iceSubscription
  flushing,                \* the flush loop in progress: "none", MEDIA_EVENT or ICE
  bus,                     \* every emitter.emit of the session, in order
  produced,                \* history: the events handed to each _dispatch*, in order
  nextEv,                  \* the number of the next event the adapter produces
  pending,                 \* calls suspended at an await of the adapter
  nstarts,                 \* start() calls so far
  teardowns,               \* adapter stop() invocations since the status last became STARTED
  epochStops,              \* history: the stop() calls since the first one on this STARTED session
  stopsClean,              \* history: no other operation set the status since that first stop()
  startAlone,              \* history: no other call ran since the pending start() was called
  sinceStart               \* history: what has happened since start() was last called

\* MCSRouter, and what the two share
VARIABLES
  clients,                 \* this.clients: the clients setupClient has bound
  mediaClientMap,          \* this.mediaClientMap
  tasks,                   \* the command handlers in flight, by transactionId
  running,                 \* the handler running its statements after the await
  nextMedia,               \* the media id the Controller returns next
  pushes,                  \* the notifications of the session's events, in order
  ended                    \* the call, handler or dispatch that has just ended, until control returns

routerVars == <<clients, mediaClientMap, tasks, running, nextMedia, pushes, ended>>

sessionState == <<status, mediaElement, MediaServer, mediaListeners, serverListeners,
                  eventQueue, outboundIceQueue, mediaStateSubscription, iceSubscription,
                  flushing, produced, nextEv, pending, nstarts, teardowns,
                  epochStops, stopsClean, startAlone, sinceStart>>

sessionVars == <<status, mediaElement, MediaServer, mediaListeners, serverListeners,
                 eventQueue, outboundIceQueue, mediaStateSubscription, iceSubscription,
                 flushing, bus, produced, nextEv, pending, nstarts, teardowns,
                 epochStops, stopsClean, startAlone, sinceStart>>

vars == <<sessionVars, routerVars>>

\* ----------------------------------------------------- MCSRouter: values
Clients == {"A", "B"}
NoClient == "none"
TxIds == {"t1", "t2"}
MediaIds == 1..MaxMedia
NoMedia == 0
NoTask == [cmd |-> "none"]

MEDIA_CONNECTED == "MEDIA_CONNECTED"
MEDIA_DISCONNECTED == "MEDIA_DISCONNECTED"
USER_JOINED == "USER_JOINED"
USER_LEFT == "USER_LEFT"
\* The kinds _dispatchEvents listens to (lines 302-354).
RouterKinds == {ICE, MEDIA_EVENT, MEDIA_CONNECTED, MEDIA_DISCONNECTED, USER_JOINED, USER_LEFT}

\* The commands setupClient binds that the Router answers (lines 215-294).
Commands == {"join", "publishAndSubscribe", "unpublishAndUnsubscribe", "publish",
             "unpublish", "subscribe", "unsubscribe", "addIceCandidate", "connect",
             "disconnect", "leave", "onEvent"}
Creating == {"publishAndSubscribe", "publish", "subscribe"}

\* ---------------------------------------------------- MCSRouter: helpers

\* The Router method a handler calls; the handler of unpublishAndUnsubscribe
\* calls this.unpublishAndUnsubscribe, which the class does not define (line 230).
RouterOp(cmd) ==
  CASE cmd = "publishAndSubscribe" -> "publishnsubscribe"
    [] cmd = "unpublishAndUnsubscribe" -> "undefined"
    [] OTHER -> cmd

\* What throws inside the method's try block before the Controller is called:
\* unsubscribe reads `user`, which nothing declares (line 114); connect, handed
\* the handler's one argument, calls map on an undefined `sinks` (line 146).
ThrowsBeforeCall(op) ==
  CASE op = "unsubscribe" -> "ReferenceError"
    [] op = "connect" -> "TypeError"
    [] OTHER -> "none"

\* The names in scope in each method's catch block: its parameters and what it
\* declares outside the try block (a const of the try block ends with it).
InScopeAtCatch(op) ==
  CASE op = "join" -> {"args", "room_id", "type", "params"}
    [] op = "leave" -> {"args", "arguments"}
    [] op = "publishnsubscribe" -> {"room", "user", "sourceId", "type", "params", "arguments"}
    [] op = "connect" -> {"source", "sinks", "type", "arguments"}
    [] op = "disconnect" -> {"source", "sink", "type", "arguments"}
    [] OTHER -> {"args", "arguments"}

\* The names each catch block reads to build the params of the error.
CatchRefs(op) ==
  CASE op = "join" -> {"room_id", "type", "params"}
    [] op = "leave" -> {"arguments"}
    [] op = "publishnsubscribe" -> {"room", "user", "sourceId", "type", "params"}
    [] op = "publish" -> {"user", "room", "type", "params"}
    [] op = "unpublish" -> {"user", "mediaId"}
    [] op = "subscribe" -> {"user", "source", "type", "params"}
    [] op = "unsubscribe" -> {"args"}
    [] op = "connect" -> {"source", "sink", "type"}
    [] op = "disconnect" -> {"source", "sink", "type"}
    [] op = "onEvent" -> {"eventName", "mediaId"}
    [] op = "addIceCandidate" -> {"mediaId", "candidate"}
    [] OTHER -> {}

\* What the method's caller catches when its try block throws: the error
\* _handleError builds (lines 196-202), or the ReferenceError of a catch block
\* that reads a name out of scope.
CatchResult(op) ==
  IF CatchRefs(op) \subseteq InScopeAtCatch(op)
    THEN [shape |-> "normalized", operation |-> op]
    ELSE [shape |-> "ReferenceError", operation |-> "-"]

NoError == [shape |-> "none", operation |-> "-"]

\* The statements of a handler after its await (lines 218-294). The handlers of
\* connect and disconnect read `sourceId`, which nothing declares.
HandlerBodyAckFirst(cmd) ==
  CASE cmd \in Creating -> <<"ack", "register">>
    [] cmd \in {"connect", "disconnect"} -> <<"throw">>
    [] cmd = "onEvent" -> <<>>
    [] OTHER -> <<"ack">>
HandlerBodyRegisterAll(cmd) ==
  CASE cmd \in {"connect", "disconnect"} -> <<"throw">>
    [] cmd = "onEvent" -> <<>>
    [] OTHER -> <<"register", "ack">>
HandlerBody(cmd) ==
  CASE cmd \in Creating -> <<"register", "ack">>
    [] cmd \in {"connect", "disconnect"} -> <<"throw">>
    [] cmd = "onEvent" -> <<>>
    [] OTHER -> <<"ack">>

\* The acknowledgment each handler sends.
AckName(cmd) ==
  CASE cmd = "join" -> "joined"
    [] cmd = "publishAndSubscribe" -> "publishedAndSubscribed"
    [] cmd = "unpublishAndUnsubscribe" -> "unpublishedAndUnsubscribed"
    [] cmd = "publish" -> "published"
    [] cmd = "unpublish" -> "unpublished"
    [] cmd = "subscribe" -> "subscribed"
    [] cmd = "unsubscribe" -> "unsubscribed"
    [] cmd = "addIceCandidate" -> "iceCandidateAdded"
    [] cmd = "connect" -> "connected"
    [] cmd = "disconnect" -> "disconnected"
    [] cmd = "leave" -> "left"
    [] OTHER -> "none"

\* The media id a command names in its arguments.
ArgIds(cmd) == IF cmd \in {"unpublish", "unsubscribe"} THEN MediaIds ELSE {NoMedia}

\* this.mediaClientMap[id] (lines 304, 313, 322, 331, 340, 349).
OwnerOfOther(map, id) ==
  IF id \in DOMAIN map THEN CHOOSE c \in Clients : c # map[id] ELSE NoClient
OwnerOf(map, id) == IF id \in DOMAIN map THEN map[id] ELSE NoClient

\* The notification each listener makes.
PushMethod(kind) ==
  CASE kind = ICE -> "onIceCandidate"
    [] kind = MEDIA_EVENT -> "mediaState"
    [] kind = MEDIA_CONNECTED -> "mediaConnected"
    [] kind = MEDIA_DISCONNECTED -> "mediaDisconnected"
    [] kind = USER_JOINED -> "userJoined"
    [] kind = USER_LEFT -> "userLeft"
    [] OTHER -> "none"

\* The listeners that pass `...event` (lines 325, 334, 343, 352): spreading a
\* value that is not iterable throws a TypeError.
Spreads(kind) == kind \in {MEDIA_CONNECTED, MEDIA_DISCONNECTED, USER_JOINED, USER_LEFT}

\* One listener of _dispatchEvents (lines 301-355) on an event of its kind.
Dispatch(map, kind, id, iterable) ==
  LET client == OwnerOf(map, id)
      throws == kind \in RouterKinds /\ client # NoClient /\ Spreads(kind) /\ ~iterable
  IN [what |-> "dispatch", kind |-> kind, id |-> id,
      to |-> IF kind \in RouterKinds /\ client # NoClient /\ ~throws
               THEN {<<client, PushMethod(kind)>>} ELSE {},
      error |-> IF throws THEN "TypeError" ELSE "none"]

\* A handler that has ended, as its client and the caller of the method saw it.
Finished(cmd, client, tid, ctl, nctl, allOk, error, acks, mediaId) ==
  [what |-> "task", cmd |-> cmd, client |-> client, tid |-> tid, ctl |-> ctl,
   nctl |-> nctl, allOk |-> allOk, error |-> error, acks |-> acks, mediaId |-> mediaId]

\* ------------------------------------------------ MediaSession: helpers

\* getAdapter (lines 191-206): the adapter for a name, null for any other name.
getAdapter(adapter) ==
  CASE adapter = KURENTO -> KURENTO
    [] adapter = FREESWITCH -> FREESWITCH
    [] OTHER -> "null"

\* _handleError (lines 208-211): the status it leaves, whatever it was.
HandleErrorStatusKeep(st) == st
HandleErrorStatus(st) == STOPPED

\* Line 103: the status in which stop() acts.
StopActsLoose(st) == st # STOPPED
StopActsWhileStopping(st) == st \in {STARTED, STOPPING}
StopActsWhileStarting(st) == st \in {STARTING, STARTED}
StopActs(st) == st = STARTED

\* Lines 44 and 56: an event is queued while its class is not subscribed.
ShouldQueueNever(subscribed) == FALSE
ShouldQueueAlways(subscribed) == TRUE
ShouldQueue(subscribed) == ~subscribed

\* Lines 175 and 185: Array.shift takes the oldest queued event.
ShiftIndexLast(q) == Len(q)
ShiftIndex(q) == 1

Without(q, i) == [j \in 1..(Len(q) - 1) |-> IF j < i THEN q[j] ELSE q[j + 1]]

PendingTotal == pending.init + pending.create + pending.stopCur + pending.stopOld
                + pending.connect + pending.disconnect

\* A call of the session that has completed, as its caller saw it.
Done(op, ok, noop, err, before, after, clean) ==
  [what |-> "call", op |-> op, ok |-> ok, noop |-> noop, err |-> err,
   before |-> before, after |-> after, clean |-> clean]

None == [what |-> "none"]

\* No synchronous stretch is in progress.
Idle == flushing = "none" /\ running = "none" /\ ended = None

\* The session's emitter.emit: one more entry of the bus (via: the statement
\* that emits, "flush" for lines 177 and 187, "direct" for the others), and,
\* for the kinds the Router listens to, its listener run within the emit.
Emit(kind, n, via) ==
  /\ bus' = Append(bus, [kind |-> kind, mediaId |-> SessionId, n |-> n, via |-> via])
  /\ pushes' = IF kind \in RouterKinds
                 THEN pushes \o [i \in 1..Cardinality(Dispatch(mediaClientMap, kind,
                                                                SessionId, FALSE).to) |->
                        [client |-> OwnerOf(mediaClientMap, SessionId),
                         method |-> PushMethod(kind), id |-> SessionId, n |-> n]]
                 ELSE pushes

routerState == <<clients, mediaClientMap, tasks, running, nextMedia>>
busVars == <<bus, pushes>>

\* A statement of another operation that sets the status, seen from the
\* stop() calls being followed.
Interferes == stopsClean' = (stopsClean /\ epochStops = <<>>)

\* ------------------------------------------------ MediaSession: actions

\* start() up to its first await (lines 66-69); a null adapter throws there.
StartCall ==
  /\ Idle /\ nstarts < MaxStarts /\ PendingTotal < MaxPending
  /\ nstarts' = nstarts + 1
  /\ Interferes
  /\ IF MediaServer = "null"
       THEN /\ status' = HandleErrorStatus(STARTING)
            /\ ended' = Done("start", FALSE, FALSE, "normalized", status,
                                HandleErrorStatus(STARTING), PendingTotal = 0)
            /\ UNCHANGED <<pending, startAlone>>
       ELSE /\ status' = STARTING
            /\ pending' = [pending EXCEPT !.init = @ + 1]
            /\ startAlone' = (PendingTotal = 0)
            /\ UNCHANGED ended
  /\ UNCHANGED routerState
  /\ UNCHANGED <<mediaElement, MediaServer, mediaListeners, serverListeners, eventQueue,
                 outboundIceQueue, mediaStateSubscription, iceSubscription, flushing,
                 busVars, produced, nextEv, teardowns, epochStops>>
  /\ sinceStart' = [earlyStop |-> FALSE, linkFailed |-> FALSE]

\* init() settles (line 69): createMediaElement is called, or the catch runs.
StartInitDone(ok) ==
  /\ Idle /\ pending.init > 0
  /\ IF ok
       THEN /\ pending' = [pending EXCEPT !.init = @ - 1, !.create = @ + 1]
            /\ UNCHANGED <<status, ended, stopsClean>>
       ELSE /\ pending' = [pending EXCEPT !.init = @ - 1]
            /\ status' = HandleErrorStatus(status)
            /\ Interferes
            /\ ended' = Done("start", FALSE, FALSE, "normalized", status,
                                HandleErrorStatus(status), startAlone)
  /\ UNCHANGED routerState
  /\ UNCHANGED <<mediaElement, MediaServer, mediaListeners, serverListeners, eventQueue,
                 outboundIceQueue, mediaStateSubscription, iceSubscription, flushing,
                 busVars, produced, nextEv, nstarts, teardowns, epochStops, startAlone>>
  /\ UNCHANGED sinceStart

\* createMediaElement() settles (lines 71-99). outcome: "ok", or the step that
\* fails: "create" (line 71), "on" (line 75), "track" (line 78).
StartCreateDone(outcome, h) ==
  /\ Idle /\ pending.create > 0
  /\ pending' = [pending EXCEPT !.create = @ - 1]
  /\ mediaElement' = IF outcome = "create" THEN mediaElement ELSE h
  /\ mediaListeners' = IF outcome \in {"ok", "track"} THEN mediaListeners + 1
                       ELSE mediaListeners
  /\ serverListeners' = IF outcome = "ok" THEN serverListeners + 1 ELSE serverListeners
  /\ IF outcome = "ok"
       THEN /\ ended' = Done("start", TRUE, FALSE, "none", status, status, startAlone)
            /\ UNCHANGED <<status, stopsClean>>
       ELSE /\ status' = HandleErrorStatus(status)
            /\ Interferes
            /\ ended' = Done("start", FALSE, FALSE, "normalized", status,
                                HandleErrorStatus(status), startAlone)
  /\ UNCHANGED routerState
  /\ UNCHANGED <<MediaServer, eventQueue, outboundIceQueue, mediaStateSubscription,
                 iceSubscription, flushing, busVars, produced, nextEv, nstarts, teardowns,
                 epochStops, startAlone>>
  /\ UNCHANGED sinceStart

\* sessionStarted() (lines 149-154).
SessionStarted ==
  /\ Idle
  /\ IF status = STARTING
       THEN /\ status' = STARTED
            /\ teardowns' = 0
            /\ epochStops' = <<>>
            /\ stopsClean' = TRUE
            /\ pending' = [pending EXCEPT !.stopCur = 0, !.stopOld = @ + pending.stopCur]
       ELSE UNCHANGED <<status, teardowns, epochStops, stopsClean, pending>>
  /\ startAlone' = (startAlone /\ pending.init + pending.create = 0)
  /\ ended' = Done("sessionStarted", TRUE, status # STARTING, "none", status,
                      status', TRUE)
  /\ UNCHANGED routerState
  /\ UNCHANGED <<mediaElement, MediaServer, mediaListeners, serverListeners, eventQueue,
                 outboundIceQueue, mediaStateSubscription, iceSubscription, flushing,
                 busVars, produced, nextEv, nstarts>>
  /\ UNCHANGED sinceStart

\* stop() up to its await (lines 102-106), or all of it when it does not act
\* (lines 116-118).
StopCall ==
  /\ Idle
  /\ startAlone' = (startAlone /\ pending.init + pending.create = 0)
  /\ IF StopActs(status)
       THEN /\ PendingTotal < MaxPending
            /\ teardowns' = teardowns + 1
            /\ IF MediaServer = "null"
                 THEN /\ status' = HandleErrorStatus(STOPPING)
                      /\ ended' = Done("stop", FALSE, FALSE, "normalized", status,
                                          HandleErrorStatus(STOPPING), TRUE)
                      /\ UNCHANGED <<pending, epochStops, stopsClean>>
                 ELSE /\ status' = STOPPING
                      /\ IF epochStops = <<>>
                           THEN /\ epochStops' = <<[teardown |-> TRUE, overlapped |-> FALSE,
                                                    done |-> FALSE, after |-> "-"]>>
                                /\ stopsClean' = TRUE
                                /\ pending' = [pending EXCEPT !.stopCur = @ + 1]
                           ELSE /\ epochStops' = epochStops
                                /\ stopsClean' = FALSE
                                /\ pending' = [pending EXCEPT !.stopOld = @ + 1]
                      /\ UNCHANGED ended
       ELSE /\ ended' = Done("stop", TRUE, TRUE, "none", status, status, TRUE)
            /\ epochStops' =
                 IF epochStops # <<>> /\ Len(epochStops) < MaxStops
                   THEN Append(epochStops, [teardown |-> FALSE,
                                            overlapped |-> pending.stopCur > 0,
                                            done |-> TRUE, after |-> status])
                   ELSE epochStops
            /\ UNCHANGED <<status, teardowns, pending, stopsClean>>
  /\ UNCHANGED routerState
  /\ UNCHANGED <<mediaElement, MediaServer, mediaListeners, serverListeners, eventQueue,
                 outboundIceQueue, mediaStateSubscription, iceSubscription, flushing,
                 produced, nextEv, nstarts, busVars>>
  /\ sinceStart' = IF ~StopActs(status) /\ status = STARTING
                   THEN [sinceStart EXCEPT !.earlyStop = TRUE]
                   ELSE sinceStart

\* The adapter's stop() settles (lines 107-115). cur: the call is the first
\* stop() of the present STARTED session.
StopDone(ok, cur) ==
  /\ Idle
  /\ IF cur THEN pending.stopCur > 0 ELSE pending.stopOld > 0
  /\ pending' = IF cur THEN [pending EXCEPT !.stopCur = @ - 1]
                ELSE [pending EXCEPT !.stopOld = @ - 1]
  /\ status' = IF ok THEN STOPPED ELSE HandleErrorStatus(status)
  /\ IF ok THEN Emit(MEDIA_SESSION_STOPPED, 0, "direct") ELSE UNCHANGED busVars
  /\ ended' = Done("stop", ok, FALSE, IF ok THEN "none" ELSE "normalized",
                      status, status', TRUE)
  /\ epochStops' = IF cur THEN [epochStops EXCEPT ![1].done = TRUE, ![1].after = status']
                   ELSE epochStops
  /\ stopsClean' = (stopsClean /\ cur)
  /\ UNCHANGED routerState
  /\ UNCHANGED <<mediaElement, MediaServer, mediaListeners, serverListeners, eventQueue,
                 outboundIceQueue, mediaStateSubscription, iceSubscription, flushing,
                 produced, nextEv, nstarts, teardowns, startAlone>>
  /\ UNCHANGED sinceStart

\* connect() and disconnect() up to their await (lines 121-124, 133-136).
LinkCall(op) ==
  /\ Idle /\ PendingTotal < MaxPending
  /\ startAlone' = (startAlone /\ pending.init + pending.create = 0)
  /\ IF MediaServer = "null"
       THEN /\ status' = HandleErrorStatus(status)
            /\ Interferes
            /\ ended' = Done(op, FALSE, FALSE, "normalized", status,
                                HandleErrorStatus(status), TRUE)
            /\ UNCHANGED pending
       ELSE /\ pending' = IF op = "connect" THEN [pending EXCEPT !.connect = @ + 1]
                          ELSE [pending EXCEPT !.disconnect = @ + 1]
            /\ UNCHANGED <<status, ended, stopsClean>>
  /\ UNCHANGED routerState
  /\ UNCHANGED <<mediaElement, MediaServer, mediaListeners, serverListeners, eventQueue,
                 outboundIceQueue, mediaStateSubscription, iceSubscription, flushing,
                 busVars, produced, nextEv, nstarts, teardowns, epochStops>>
  /\ UNCHANGED sinceStart

\* The adapter's connect() or disconnect() settles (lines 125-130, 137-142).
LinkDone(op, ok) ==
  /\ Idle
  /\ IF op = "connect" THEN pending.connect > 0 ELSE pending.disconnect > 0
  /\ pending' = IF op = "connect" THEN [pending EXCEPT !.connect = @ - 1]
                ELSE [pending EXCEPT !.disconnect = @ - 1]
  /\ IF ok
       THEN /\ ended' = Done(op, TRUE, FALSE, "none", status, status, TRUE)
            /\ UNCHANGED <<status, stopsClean>>
       ELSE /\ status' = HandleErrorStatus(status)
            /\ Interferes
            /\ ended' = Done(op, FALSE, FALSE, "normalized", status,
                                HandleErrorStatus(status), TRUE)
  /\ UNCHANGED routerState
  /\ UNCHANGED <<mediaElement, MediaServer, mediaListeners, serverListeners, eventQueue,
                 outboundIceQueue, mediaStateSubscription, iceSubscription, flushing,
                 busVars, produced, nextEv, nstarts, teardowns, epochStops, startAlone>>
  /\ sinceStart' = IF ~ok /\ status = STARTED
                   THEN [sinceStart EXCEPT !.linkFailed = TRUE]
                   ELSE sinceStart

\* addMediaEventListener (lines 145-147): a bare call on the adapter.
AddMediaEventListener ==
  /\ Idle
  /\ ended' = IF MediaServer = "null"
                   THEN Done("addMediaEventListener", FALSE, FALSE, "TypeError",
                             status, status, TRUE)
                   ELSE Done("addMediaEventListener", TRUE, FALSE, "none",
                             status, status, TRUE)
  /\ UNCHANGED routerState
  /\ UNCHANGED <<status, mediaElement, MediaServer, mediaListeners, serverListeners,
                 eventQueue, outboundIceQueue, mediaStateSubscription, iceSubscription,
                 flushing, busVars, produced, nextEv, pending, nstarts, teardowns,
                 epochStops, stopsClean, startAlone>>
  /\ UNCHANGED sinceStart

\* The adapter emits a media-state event: _dispatchMediaStateEvent (lines 42-52).
DispatchMediaStateEvent ==
  /\ Idle /\ mediaListeners > 0 /\ nextEv <= MaxEvents
  /\ nextEv' = nextEv + 1
  /\ produced' = [produced EXCEPT !.state = Append(@, nextEv)]
  /\ IF ShouldQueue(mediaStateSubscription)
       THEN /\ eventQueue' = Append(eventQueue, nextEv)
            /\ UNCHANGED busVars
       ELSE /\ Emit(MEDIA_EVENT, nextEv, "direct")
            /\ UNCHANGED eventQueue
  /\ UNCHANGED <<routerState, ended>>
  /\ UNCHANGED <<status, mediaElement, MediaServer, mediaListeners, serverListeners,
                 outboundIceQueue, mediaStateSubscription, iceSubscription, flushing,
                 pending, nstarts, teardowns, epochStops, stopsClean, startAlone>>
  /\ UNCHANGED sinceStart

\* The adapter emits an ICE candidate: _dispatchIceCandidate (lines 54-64).
DispatchIceCandidate ==
  /\ Idle /\ mediaListeners > 0 /\ nextEv <= MaxEvents
  /\ nextEv' = nextEv + 1
  /\ produced' = [produced EXCEPT !.ice = Append(@, nextEv)]
  /\ IF ShouldQueue(iceSubscription)
       THEN /\ outboundIceQueue' = Append(outboundIceQueue, nextEv)
            /\ UNCHANGED busVars
       ELSE /\ Emit(ICE, nextEv, "direct")
            /\ UNCHANGED outboundIceQueue
  /\ UNCHANGED <<routerState, ended>>
  /\ UNCHANGED <<status, mediaElement, MediaServer, mediaListeners, serverListeners,
                 eventQueue, mediaStateSubscription, iceSubscription, flushing,
                 pending, nstarts, teardowns, epochStops, stopsClean, startAlone>>
  /\ UNCHANGED sinceStart

\* onEvent (lines 156-169): the flag is set and the flush loop entered.
OnEvent(eventName) ==
  /\ Idle
  /\ mediaStateSubscription' = (mediaStateSubscription \/ eventName = MEDIA_EVENT)
  /\ iceSubscription' = (iceSubscription \/ eventName = ICE)
  /\ flushing' = CASE eventName = MEDIA_EVENT /\ eventQueue # <<>> -> MEDIA_EVENT
                   [] eventName = ICE /\ outboundIceQueue # <<>> -> ICE
                   [] OTHER -> "none"
  /\ UNCHANGED <<routerState, ended>>
  /\ UNCHANGED <<status, mediaElement, MediaServer, mediaListeners, serverListeners,
                 eventQueue, outboundIceQueue, busVars, produced, nextEv, pending, nstarts,
                 teardowns, epochStops, stopsClean, startAlone>>
  /\ UNCHANGED sinceStart

\* One turn of the loop of _flushMediaStateEvents (lines 174-178).
FlushMediaStateEvents ==
  /\ flushing = MEDIA_EVENT
  /\ Emit(MEDIA_EVENT, eventQueue[ShiftIndex(eventQueue)], "flush")
  /\ eventQueue' = Without(eventQueue, ShiftIndex(eventQueue))
  /\ flushing' = IF eventQueue' = <<>> THEN "none" ELSE MEDIA_EVENT
  /\ UNCHANGED routerState
  /\ UNCHANGED <<status, mediaElement, MediaServer, mediaListeners, serverListeners,
                 outboundIceQueue, mediaStateSubscription, iceSubscription, produced,
                 nextEv, pending, nstarts, teardowns, epochStops, stopsClean,
                 startAlone, ended>>
  /\ UNCHANGED sinceStart

\* One turn of the loop of _flushIceEvents (lines 184-188).
FlushIceEvents ==
  /\ flushing = ICE
  /\ Emit(ICE, outboundIceQueue[ShiftIndex(outboundIceQueue)], "flush")
  /\ outboundIceQueue' = Without(outboundIceQueue, ShiftIndex(outboundIceQueue))
  /\ flushing' = IF outboundIceQueue' = <<>> THEN "none" ELSE ICE
  /\ UNCHANGED routerState
  /\ UNCHANGED <<status, mediaElement, MediaServer, mediaListeners, serverListeners,
                 eventQueue, mediaStateSubscription, iceSubscription, produced,
                 nextEv, pending, nstarts, teardowns, epochStops, stopsClean,
                 startAlone, ended>>
  /\ UNCHANGED sinceStart

\* The adapter reports the media server offline or online (lines 80-92): every
\* listener registered so far re-emits it as SERVER_STATE.
ServerStateEvent ==
  /\ Idle /\ serverListeners > 0 /\ nextEv <= MaxEvents
  /\ nextEv' = nextEv + 1
  /\ bus' = bus \o [i \in 1..serverListeners |->
                      [kind |-> SERVER_STATE, mediaId |-> SessionId, n |-> nextEv,
                       via |-> "direct"]]
  /\ UNCHANGED <<pushes, ended>>
  /\ UNCHANGED routerState
  /\ UNCHANGED routerState
  /\ UNCHANGED <<status, mediaElement, MediaServer, mediaListeners, serverListeners,
                 eventQueue, outboundIceQueue, mediaStateSubscription, iceSubscription,
                 flushing, produced, pending, nstarts, teardowns, epochStops,
                 stopsClean, startAlone, ended>>
  /\ UNCHANGED sinceStart

\* ---------------------------------------------------- MCSRouter: actions

\* setupClient (lines 210-299): the client's commands are bound, once.
SetupClient(c) ==
  /\ Idle /\ c \notin clients
  /\ clients' = clients \cup {c}
  /\ UNCHANGED <<mediaClientMap, tasks, running, nextMedia, ended, busVars, sessionState>>

\* A client sends a command: its handler runs up to the await of the
\* Controller, or to the error that ends it before. onEvent does not await the
\* Controller (line 178): the call returns or throws within the handler.
Command(c, cmd, tid, m) ==
  /\ Idle /\ c \in clients /\ tasks[tid] = NoTask
  /\ IF RouterOp(cmd) = "undefined"
       THEN /\ ended' = Finished(cmd, c, tid, "notcalled", 0, TRUE,
                                [shape |-> "TypeError", operation |-> "-"], <<>>, m)
            /\ UNCHANGED tasks
       ELSE IF ThrowsBeforeCall(RouterOp(cmd)) # "none"
       THEN /\ ended' = Finished(cmd, c, tid, "notcalled", 0, TRUE,
                                CatchResult(RouterOp(cmd)), <<>>, m)
            /\ UNCHANGED tasks
       ELSE IF cmd = "onEvent"
       THEN /\ \E ok \in BOOLEAN :
                 ended' = Finished(cmd, c, tid, IF ok THEN "ok" ELSE "fail", 1, ok,
                                  IF ok THEN NoError ELSE CatchResult(RouterOp(cmd)),
                                  <<>>, m)
            /\ UNCHANGED tasks
       ELSE /\ tasks' = [tasks EXCEPT ![tid] =
                           [cmd |-> cmd, client |-> c, pc |-> "await", pos |-> 1,
                            mediaId |-> m, acks |-> <<>>]]
            /\ UNCHANGED ended
  /\ UNCHANGED <<clients, mediaClientMap, running, nextMedia, bus, pushes, sessionState>>

\* The Controller settles the call a handler awaits. On failure the method's
\* catch block ends the handler; on success the handler's statements follow.
ControllerSettles(tid, ok) ==
  /\ Idle /\ tasks[tid] # NoTask /\ tasks[tid].pc = "await"
  /\ LET t == tasks[tid]
         creates == ok /\ t.cmd \in Creating
         m == IF creates THEN nextMedia ELSE t.mediaId
     IN /\ creates => nextMedia <= MaxMedia
        /\ nextMedia' = IF creates THEN nextMedia + 1 ELSE nextMedia
        /\ IF ~ok
             THEN /\ ended' = Finished(t.cmd, t.client, tid, "fail", 1, FALSE,
                                      CatchResult(RouterOp(t.cmd)), <<>>, m)
                  /\ tasks' = [tasks EXCEPT ![tid] = NoTask]
                  /\ UNCHANGED running
             ELSE IF HandlerBody(t.cmd) = <<>>
             THEN /\ ended' = Finished(t.cmd, t.client, tid, "ok", 1, TRUE, NoError, <<>>, m)
                  /\ tasks' = [tasks EXCEPT ![tid] = NoTask]
                  /\ UNCHANGED running
             ELSE /\ tasks' = [tasks EXCEPT ![tid].pc = "handler", ![tid].mediaId = m]
                  /\ running' = tid
                  /\ UNCHANGED ended
  /\ UNCHANGED <<clients, mediaClientMap, bus, pushes, sessionState>>

\* The next statement of the running handler.
HandlerStep(tid) ==
  /\ flushing = "none" /\ running = tid /\ ended = None
  /\ LET t == tasks[tid]
         body == HandlerBody(t.cmd)
         stmt == body[t.pos]
         acks == IF stmt = "ack"
                   THEN Append(t.acks, [kind |-> AckName(t.cmd), client |-> t.client,
                                        transactionId |-> tid])
                   ELSE t.acks
         ends == stmt = "throw" \/ t.pos = Len(body)
     IN /\ mediaClientMap' =
             IF stmt = "register"
               THEN [x \in DOMAIN mediaClientMap \cup {t.mediaId} |->
                       IF x = t.mediaId THEN t.client ELSE mediaClientMap[x]]
               ELSE mediaClientMap
        /\ IF ends
             THEN /\ tasks' = [tasks EXCEPT ![tid] = NoTask]
                  /\ running' = "none"
                  /\ ended' = Finished(t.cmd, t.client, tid, "ok", 1, TRUE,
                                      IF stmt = "throw"
                                        THEN [shape |-> "ReferenceError", operation |-> "-"]
                                        ELSE NoError,
                                      acks, t.mediaId)
             ELSE /\ tasks' = [tasks EXCEPT ![tid].pos = @ + 1, ![tid].acks = acks]
                  /\ UNCHANGED <<running, ended>>
  /\ UNCHANGED <<clients, nextMedia, bus, pushes, sessionState>>

\* connect(source, sinks, type) called with a list of sinks (lines 144-162).
\* The Controller is called once per sink and its promises are dropped (the
\* map callback returns nothing); Promise.all of the undefined values resolves,
\* `resolve` is not declared, then `reject`, and the catch block reads `sink`.
\* sinkOk: how the Controller settles each per-sink call.
Connect(sinkOk) ==
  /\ Idle
  /\ ended' = Finished("connect", NoClient, "direct", "ok", Len(sinkOk),
                      \A i \in 1..Len(sinkOk) : sinkOk[i],
                      CatchResult("connect"), <<>>, NoMedia)
  /\ UNCHANGED <<clients, mediaClientMap, tasks, running, nextMedia, bus, pushes,
                 sessionState>>

\* An event of another producer reaches the bus (the Controller, another
\* session): the Router's listener of its kind runs (lines 301-355).
BusEvent(kind, id, iterable) ==
  /\ Idle
  /\ ended' = Dispatch(mediaClientMap, kind, id, iterable)
  /\ UNCHANGED <<clients, mediaClientMap, tasks, running, nextMedia, bus, pushes,
                 sessionState>>

\* The media id the Controller returns for the publish that creates the
\* session of this model: the id of the session, which tags its events
\* (lines 43 and 55 of MediaSession.js).
PublishedId == SessionId

\* The Controller's onEvent(eventName, identifier) subscribes on the session
\* the identifier names.
RoutesToSession(identifier) == identifier = PublishedId

\* A client names a media id once an acknowledgment has carried it (lines 224-225,
\* 237-238, 250-251): the handler has registered the client and acknowledged.
Knows(c, m) == m \in DOMAIN mediaClientMap /\ mediaClientMap[m] = c

\* A client sends onEvent for a media id it knows (lines 292-294, 175-183); the
\* Controller passes it to the session, whose onEvent runs (lines 156-169 of
\* MediaSession.js).
ClientOnEvent(c, eventName, identifier) ==
  /\ c \in clients /\ Knows(c, identifier)
  /\ RoutesToSession(identifier)
  /\ OnEvent(eventName)

\* Control returns to the event loop after a handler, a call or a dispatch
\* has ended.
Return ==
  /\ ended # None
  /\ ended' = None
  /\ UNCHANGED <<clients, mediaClientMap, tasks, running, nextMedia, busVars, sessionState>>

\* ------------------------------------------------------- specification

\* The constructor (lines 19-40), for each adapter name the options may give.
SessionInit ==
  /\ status = STOPPED
  /\ mediaElement = Undefined
  /\ MediaServer \in {getAdapter(a) : a \in AdapterNames}
  /\ mediaListeners = 0
  /\ serverListeners = 0
  /\ eventQueue = <<>>
  /\ outboundIceQueue = <<>>
  /\ mediaStateSubscription = FALSE
  /\ iceSubscription = FALSE
  /\ flushing = "none"
  /\ bus = <<>>
  /\ produced = [state |-> <<>>, ice |-> <<>>]
  /\ nextEv = 1
  /\ pending = [init |-> 0, create |-> 0, stopCur |-> 0, stopOld |-> 0,
                connect |-> 0, disconnect |-> 0]
  /\ nstarts = 0
  /\ teardowns = 0
  /\ epochStops = <<>>
  /\ stopsClean = TRUE
  /\ startAlone = TRUE
  /\ sinceStart = [earlyStop |-> FALSE, linkFailed |-> FALSE]

\* The Router's constructor (lines 15-28).
RouterInit ==
  /\ clients = {}
  /\ mediaClientMap = <<>>
  /\ tasks = [t \in TxIds |-> NoTask]
  /\ running = "none"
  /\ nextMedia = 1
  /\ pushes = <<>>
  /\ ended = None

Init == SessionInit /\ RouterInit

\* The calls of the status machine, with the adapter settling each as it may.
LifecycleNext ==
  \/ StartCall
  \/ \E ok \in BOOLEAN : StartInitDone(ok)
  \/ \E outcome \in {"ok", "create", "on", "track"}, h \in ElementHandles :
       StartCreateDone(outcome, h)
  \/ SessionStarted
  \/ StopCall
  \/ \E ok \in BOOLEAN, cur \in BOOLEAN : StopDone(ok, cur)
  \/ \E op \in {"connect", "disconnect"} : LinkCall(op)
  \/ \E op \in {"connect", "disconnect"}, ok \in BOOLEAN : LinkDone(op, ok)
  \/ AddMediaEventListener
  \/ Return

LifecycleSpec == Init /\ [][LifecycleNext]_vars

\* The events of a session that start() has set up, and their subscription.
BufferNext ==
  \/ StartCall
  \/ \E ok \in BOOLEAN : StartInitDone(ok)
  \/ \E outcome \in {"ok", "create", "on", "track"}, h \in ElementHandles :
       StartCreateDone(outcome, h)
  \/ DispatchMediaStateEvent
  \/ DispatchIceCandidate
  \/ \E eventName \in EventNames : OnEvent(eventName)
  \/ FlushMediaStateEvents
  \/ FlushIceEvents
  \/ ServerStateEvent
  \/ Return

BufferSpec == Init /\ [][BufferNext]_vars

\* The commands of the clients, the Controller's answers and the events of
\* the bus.
RouterNext ==
  \/ \E c \in Clients : SetupClient(c)
  \/ \E c \in Clients, cmd \in Commands, tid \in TxIds :
       \E m \in ArgIds(cmd) : Command(c, cmd, tid, m)
  \/ \E tid \in TxIds, ok \in BOOLEAN : ControllerSettles(tid, ok)
  \/ \E tid \in TxIds : HandlerStep(tid)
  \/ \E n \in 0..MaxSinks : \E sinkOk \in [1..n -> BOOLEAN] : Connect(sinkOk)
  \/ \E kind \in RouterKinds, id \in MediaIds, iterable \in BOOLEAN :
       BusEvent(kind, id, iterable)
  \/ Return

\* The Router beside a session of the default adapter (line 33).
RouterSpecInit == Init /\ MediaServer = getAdapter(KURENTO)

RouterSpec == RouterSpecInit /\ [][RouterNext]_vars

\* A client publishes, the Controller creates the session and starts it, once,
\* the adapter produces events and the client subscribes to them.
EndToEndNext ==
  \/ \E c \in Clients : SetupClient(c)
  \/ \E c \in Clients, tid \in TxIds : Command(c, "publish", tid, NoMedia)
  \/ \E tid \in TxIds, ok \in BOOLEAN : ControllerSettles(tid, ok)
  \/ \E tid \in TxIds : HandlerStep(tid)
  \/ StartCall /\ nstarts = 0
  \/ StartInitDone(TRUE)
  \/ \E h \in ElementHandles : StartCreateDone("ok", h)
  \/ DispatchMediaStateEvent
  \/ DispatchIceCandidate
  \/ \E c \in Clients, eventName \in EventNames, m \in MediaIds :
       ClientOnEvent(c, eventName, m)
  \/ FlushMediaStateEvents
  \/ FlushIceEvents
  \/ Return

EndToEndInit == RouterSpecInit /\ nextMedia = PublishedId

EndToEndSpec == EndToEndInit /\ [][EndToEndNext]_vars

\* ------------------------------------------------------------- claims

\* The numbers of the events of one kind on the bus, in the order emitted.
BusOf(kind) ==
  LET IsKind(e) == e.kind = kind
      es == SelectSeq(bus, IsKind)
  IN [i \in 1..Len(es) |-> es[i].n]

\* How each event of one kind reached the bus, in the order emitted.
ViaOf(kind) ==
  LET IsKind(e) == e.kind = kind
      es == SelectSeq(bus, IsKind)
  IN [i \in 1..Len(es) |-> es[i].via]

Ordered(kind, subscribed, queue, events) ==
  /\ IF subscribed
       THEN BusOf(kind) \o queue = events
       ELSE BusOf(kind) = <<>> /\ queue = events
  /\ subscribed /\ flushing # kind => queue = <<>>
  /\ \A i, j \in 1..Len(ViaOf(kind)) :
       i < j /\ ViaOf(kind)[j] = "flush" => ViaOf(kind)[i] = "flush"

\* C1: for each event class, the bus holds nothing of the class before its
\* onEvent call; the call puts the queued events on the bus in the order
\* produced, and every later event follows them, in the order produced: at any
\* moment the events on the bus followed by the events still queued are the
\* events produced, each once.
C1_Ordering ==
  /\ Ordered(MEDIA_EVENT, mediaStateSubscription, eventQueue, produced.state)
  /\ Ordered(ICE, iceSubscription, outboundIceQueue, produced.ice)

\* Two media-state events were queued and flushed, and a third one followed.
C1_Witness ==
  /\ BusOf(MEDIA_EVENT) = <<1, 2, 3>>
  /\ ViaOf(MEDIA_EVENT) = <<"flush", "flush", "direct">>

\* C2: whenever the handler of publish, subscribe or publishAndSubscribe has
\* sent its acknowledgment for media id M to client A, the map holds M -> A;
\* the entry is written in a state that comes before the acknowledgment.
C2_OwnerBeforeAck ==
  /\ \A tid \in TxIds :
       tasks[tid] # NoTask /\ tasks[tid].cmd \in Creating /\ tasks[tid].acks # <<>>
         => /\ tasks[tid].mediaId \in DOMAIN mediaClientMap
            /\ mediaClientMap[tasks[tid].mediaId] = tasks[tid].client
  /\ ended.what = "task" /\ ended.cmd \in Creating /\ ended.acks # <<>>
       => /\ ended.mediaId \in DOMAIN mediaClientMap
          /\ mediaClientMap[ended.mediaId] = ended.client

\* Client B has just been acknowledged for media 2 while A owns media 1.
C2_Witness ==
  /\ ended.what = "task" /\ ended.cmd = "subscribe" /\ ended.client = "B"
  /\ ended.acks = <<[kind |-> "subscribed", client |-> "B", transactionId |-> ended.tid]>>
  /\ ended.mediaId = 2
  /\ 1 \in DOMAIN mediaClientMap /\ mediaClientMap[1] = "A"

\* C3: a bus event for media id M notifies nobody but the client the map gives
\* for M, and an event whose id the map does not hold notifies nobody and
\* raises no error.
C3_OnlyOwnerNotified ==
  ended.what = "dispatch" =>
    /\ \A p \in ended.to :
         /\ ended.id \in DOMAIN mediaClientMap
         /\ p[1] = mediaClientMap[ended.id]
    /\ ended.id \notin DOMAIN mediaClientMap => ended.to = {} /\ ended.error = "none"

\* An ICE candidate of media 2 has gone to its owner B, and not to A, the
\* owner of media 1.
C3_Witness ==
  /\ ended.what = "dispatch" /\ ended.kind = ICE /\ ended.id = 2
  /\ ended.to = {<<"B", "onIceCandidate">>}
  /\ DOMAIN mediaClientMap = {1, 2}
  /\ mediaClientMap[1] = "A" /\ mediaClientMap[2] = "B"

\* C4 (as claimed): when an unpublish or unsubscribe command for media id M has
\* completed, the map holds no entry for M.
C4_ReleasedOnUnpublish ==
  ended.what = "task" /\ ended.cmd \in {"unpublish", "unsubscribe"}
    /\ ended.error = NoError
    => ended.mediaId \notin DOMAIN mediaClientMap

\* C5 (as claimed): a command whose Controller operation succeeded is answered
\* with exactly one acknowledgment, on its client and with its transactionId;
\* a command whose operation failed is not answered.
C5_OneAckPerSuccess ==
  ended.what = "task" /\ ended.client # NoClient /\ ended.cmd # "onEvent" =>
    IF ended.ctl = "ok"
      THEN ended.acks = <<[kind |-> AckName(ended.cmd), client |-> ended.client,
                           transactionId |-> ended.tid]>>
      ELSE ended.acks = <<>>

\* C6 (as claimed): once start() has completed, by success or by failure, the
\* status is not STARTING.
C6_NeverLeftStarting ==
  ended.what = "call" /\ ended.op = "start" => status # STARTING

\* C6 (amended): a start() that fails at any step leaves the status STOPPED
\* and hands its caller the normalized error; a start() that succeeds leaves
\* the status as it was, STARTING when no other call ran meanwhile, and the
\* sessionStarted() that finds STARTING sets STARTED.
C6_StartOutcome ==
  /\ ended.what = "call" /\ ended.op = "start" =>
       IF ended.ok
         THEN status = ended.before /\ (ended.clean => status = STARTING)
         ELSE status = STOPPED /\ ended.err = "normalized"
  /\ ended.what = "call" /\ ended.op = "sessionStarted" /\ ended.before = STARTING
       => status = STARTED

\* A start() that ran alone has succeeded, and the status is STARTING.
C6_Witness ==
  /\ ended.what = "call" /\ ended.op = "start" /\ ended.ok /\ ended.clean
  /\ status = STARTING /\ mediaElement # Undefined

\* C7: a stop() called while the status is not STARTED succeeds and changes
\* neither the status nor the element; the adapter is not invoked and nothing
\* is emitted.
C7_StopIsNoOp ==
  [][StopCall /\ status # STARTED =>
       /\ ended'.what = "call" /\ ended'.op = "stop" /\ ended'.ok
       /\ status' = status /\ mediaElement' = mediaElement
       /\ teardowns' = teardowns /\ pending' = pending /\ bus' = bus]_vars

\* stop() has returned at once on a session that start() left in STARTING.
C7_Witness ==
  /\ ended.what = "call" /\ ended.op = "stop" /\ ended.ok /\ ended.noop
  /\ status = STARTING /\ mediaElement # Undefined

\* C8 (as claimed): each of the stop() calls on one STARTED session leaves the
\* status STOPPED, and the adapter is torn down once.
C8_StoppedAfterEach ==
  /\ teardowns <= 1
  /\ stopsClean /\ epochStops # <<>> =>
       /\ teardowns = 1
       /\ \A i \in 1..Len(epochStops) : epochStops[i].done => epochStops[i].after = STOPPED

\* C8 (amended): of the stop() calls on one STARTED session only the first
\* invokes the adapter; the status is STOPPED after each call that returns
\* once the first has completed, and a call made while the first still awaits
\* the adapter returns with the status STOPPING.
C8_OneTeardown ==
  /\ teardowns <= 1
  /\ stopsClean /\ epochStops # <<>> =>
       /\ teardowns = 1
       /\ \A i \in 1..Len(epochStops) :
            /\ epochStops[i].teardown = (i = 1)
            /\ epochStops[i].done =>
                 epochStops[i].after = IF epochStops[i].overlapped THEN STOPPING ELSE STOPPED

\* Two stop() calls have completed, the second made while the first awaited.
C8_Witness ==
  /\ stopsClean /\ Len(epochStops) = 2
  /\ epochStops[1].done /\ epochStops[2].done /\ epochStops[2].overlapped
  /\ teardowns = 1 /\ status = STOPPED

\* C9 (as claimed): connect(source, sinks, type) calls the Controller once per
\* sink and succeeds exactly when every per-sink connect succeeds.
C9_ConnectAllOrNothing ==
  ended.what = "task" /\ ended.cmd = "connect" /\ ended.tid = "direct" =>
    (ended.error = NoError) = ended.allOk

\* C10 (as claimed): when the Controller call of a Router operation fails, the
\* caller gets the normalized error naming the operation.
C10_ErrorsNormalized ==
  ended.what = "task" /\ ended.ctl = "fail" =>
    ended.error = [shape |-> "normalized", operation |-> RouterOp(ended.cmd)]

\* The status changes the session's state machine lists.
ListedEdges ==
  {<<STOPPED, STARTING>>, <<STARTING, STARTED>>, <<STARTED, STOPPING>>,
   <<STOPPING, STOPPED>>, <<STARTING, STOPPED>>}

\* C11 (as claimed): every change of the status, over any calls of start(),
\* sessionStarted(), stop(), connect() and disconnect() with the adapter
\* succeeding or failing, follows one of the listed edges.
C11_OnlyListedEdges ==
  [][status' # status => <<status, status'>> \in ListedEdges]_vars

\* C12 (as claimed): in every reachable state the element handle is set
\* exactly when the status is STARTED or STOPPING.
C12_HandleIffRunning ==
  (mediaElement # Undefined) <=> (status \in {STARTED, STOPPING})

\* Code outside the session can run: no flush is in progress, or the loop of
\* the flush has emitted an event of the class and the listeners of the bus run.
Observable(kind) == flushing # kind \/ BusOf(kind) # <<>>

\* C13 (as claimed): in every reachable state, also while a flush is in
\* progress and the listeners of the bus run, the queue of an event class is
\* empty whenever the subscription flag of the class is true.
C13_QueueEmptyWhenSubscribed ==
  /\ mediaStateSubscription /\ Observable(MEDIA_EVENT) => eventQueue = <<>>
  /\ iceSubscription /\ Observable(ICE) => outboundIceQueue = <<>>

\* C13 (amended): whenever no flush of an event class is in progress, the
\* queue of the class is empty if its subscription flag is true; a flush runs
\* only with the flag already true, over the events not yet emitted.
C13_QueueEmptyOutsideFlush ==
  /\ mediaStateSubscription /\ flushing # MEDIA_EVENT => eventQueue = <<>>
  /\ iceSubscription /\ flushing # ICE => outboundIceQueue = <<>>
  /\ flushing = MEDIA_EVENT => mediaStateSubscription /\ eventQueue # <<>>
  /\ flushing = ICE => iceSubscription /\ outboundIceQueue # <<>>

\* The flush of two queued media-state events has run to its end: the flag is
\* true and the queue is empty.
C13_Witness ==
  /\ mediaStateSubscription /\ flushing = "none" /\ eventQueue = <<>>
  /\ ViaOf(MEDIA_EVENT) = <<"flush", "flush">>
  /\ produced.state = BusOf(MEDIA_EVENT)

\* C14 (as claimed): on a session whose adapter name selected no adapter,
\* every start(), stop(), connect(), disconnect() and addMediaEventListener()
\* fails, with an error the session raises for it and not with a TypeError of
\* the missing adapter, and leaves the status STOPPED.
C14_NoAdapterFailsFast ==
  MediaServer = "null" /\ ended.what = "call"
    /\ ended.op \in {"start", "stop", "connect", "disconnect", "addMediaEventListener"}
    => ~ended.ok /\ ended.err \notin {"none", "TypeError"} /\ status = STOPPED

\* The session-stopped notifications on a bus.
StoppedCount(b) ==
  LET IsStopped(e) == e.kind = MEDIA_SESSION_STOPPED
  IN Len(SelectSeq(b, IsStopped))

\* C15: a stop() whose teardown fails completes with the status STOPPED,
\* hands its caller the normalized error and emits nothing; a stop() whose
\* teardown succeeds emits the session-stopped notification once, and nothing
\* else emits one.
C15_StopFailure ==
  [][/\ (\E cur \in BOOLEAN : StopDone(FALSE, cur)) =>
          /\ status' = STOPPED /\ bus' = bus
          /\ ~ended'.ok /\ ended'.err = "normalized"
     /\ (\E cur \in BOOLEAN : StopDone(TRUE, cur)) =>
          /\ status' = STOPPED /\ ended'.ok
          /\ StoppedCount(bus') = StoppedCount(bus) + 1
     /\ StoppedCount(bus') # StoppedCount(bus) =>
          \E cur \in BOOLEAN : StopDone(TRUE, cur)]_vars

\* The teardown of a STARTED session has failed: the status is STOPPED, the
\* caller has the error and the bus has no session-stopped notification.
C15_Witness ==
  /\ ended.what = "call" /\ ended.op = "stop" /\ ~ended.ok /\ ~ended.noop
  /\ ended.before = STOPPING /\ ended.err = "normalized"
  /\ status = STOPPED /\ teardowns = 1 /\ StoppedCount(bus) = 0

\* C16: the map changes only when the handler of a publish, subscribe or
\* publishAndSubscribe whose Controller call has returned a media id writes
\* that id for its client; a command whose Controller call fails leaves the
\* map as it was and sends no acknowledgment; every key of the map is an id
\* the Controller has returned.
C16_InsertOnlyOnSuccess ==
  /\ [][mediaClientMap' # mediaClientMap =>
          \E tid \in TxIds :
            /\ running = tid /\ tasks[tid].pc = "handler"
            /\ tasks[tid].cmd \in Creating
            /\ DOMAIN mediaClientMap' = DOMAIN mediaClientMap \cup {tasks[tid].mediaId}
            /\ mediaClientMap'[tasks[tid].mediaId] = tasks[tid].client
            /\ \A x \in DOMAIN mediaClientMap \ {tasks[tid].mediaId} :
                 mediaClientMap'[x] = mediaClientMap[x]]_vars
  /\ [][(\E tid \in TxIds : ControllerSettles(tid, FALSE)) =>
          /\ mediaClientMap' = mediaClientMap
          /\ ended'.ctl = "fail" /\ ended'.acks = <<>>]_vars
  /\ [](DOMAIN mediaClientMap \subseteq 1..(nextMedia - 1))

\* The publish of B has failed at the Controller: B has no acknowledgment and
\* the map holds what it held, the entry of A.
C16_Witness ==
  /\ ended.what = "task" /\ ended.cmd = "publish" /\ ended.client = "B"
  /\ ended.ctl = "fail" /\ ended.acks = <<>>
  /\ DOMAIN mediaClientMap = {1} /\ mediaClientMap[1] = "A"

\* C17 (as claimed): an event of any of the six kinds whose id has an owner in
\* the map makes the Router invoke the matching notification on that owner,
\* once, and raises no error.
C17_OwnerNotifiedOnce ==
  ended.what = "dispatch" /\ ended.id \in DOMAIN mediaClientMap =>
    /\ ended.to = {<<mediaClientMap[ended.id], PushMethod(ended.kind)>>}
    /\ ended.error = "none"

C20_StopWhileStarting ==
  /\ [][StopCall /\ status = STARTING =>
          /\ ended'.what = "call" /\ ended'.op = "stop" /\ ended'.ok /\ ended'.noop
          /\ status' = STARTING /\ mediaElement' = mediaElement
          /\ teardowns' = teardowns /\ pending' = pending /\ bus' = bus
          /\ sinceStart'.earlyStop]_vars
  /\ [][SessionStarted /\ status = STARTING /\ sinceStart.earlyStop =>
          /\ status' = STARTED /\ mediaElement' = mediaElement
          /\ teardowns' = 0 /\ bus' = bus]_vars

\* A stop() has succeeded on the STARTING session, and sessionStarted() has
\* then made it STARTED: the element is set and nothing was torn down.
C20_Witness ==
  /\ sinceStart.earlyStop
  /\ ended.what = "call" /\ ended.op = "sessionStarted" /\ ended.before = STARTING
  /\ status = STARTED /\ mediaElement # Undefined
  /\ teardowns = 0 /\ StoppedCount(bus) = 0

\* The notifications of one kind for the session's media id, in the order made.
PushesOf(kind) ==
  LET IsKind(e) == e.method = PushMethod(kind) /\ e.id = PublishedId
  IN SelectSeq(pushes, IsKind)

PushedInOrder(kind, subscribed, queue, events) ==
  LET ps == PushesOf(kind)
  IN /\ [i \in 1..Len(ps) |-> ps[i].n] = BusOf(kind)
     /\ \A i \in 1..Len(ps) : Knows(ps[i].client, PublishedId)
     /\ subscribed => /\ \E c \in Clients : Knows(c, PublishedId)
                      /\ [i \in 1..Len(ps) |-> ps[i].n] \o queue = events
     /\ subscribed /\ flushing # kind => [i \in 1..Len(ps) |-> ps[i].n] = events

\* C18: when the client acknowledged for the session's media id subscribes to
\* an event class, every event of the class the session produces, before or
\* after the onEvent, is pushed to that client once and in the order produced:
\* the Router has pushed every event the bus carries, to the owner, and after
\* the flush the pushes are the events produced.
C18_EndToEndDelivery ==
  /\ PushedInOrder(MEDIA_EVENT, mediaStateSubscription, eventQueue, produced.state)
  /\ PushedInOrder(ICE, iceSubscription, outboundIceQueue, produced.ice)

\* A has got two media-state events queued before its onEvent and one produced
\* after it, in the order produced.
C18_Witness ==
  /\ Knows("A", PublishedId)
  /\ PushesOf(MEDIA_EVENT) =
       <<[client |-> "A", method |-> "mediaState", id |-> PublishedId, n |-> 1],
         [client |-> "A", method |-> "mediaState", id |-> PublishedId, n |-> 2],
         [client |-> "A", method |-> "mediaState", id |-> PublishedId, n |-> 3]>>
  /\ ViaOf(MEDIA_EVENT) = <<"flush", "flush", "direct">>

====
